---- MODULE Spec2Model ----
(***************************************************************************)
(* Equipment-hire console application (COM4018): the pricing engine, the   *)
(* hire flow, the ledger and the earnings reports of the drafts            *)
(* hailmary.py, wip.py, wiptask2.py, wiptask3.py and wiptask3.bak3.py.     *)
(* (wiptask1.py is the bare menu: it keeps no state and calls none of      *)
(* these.)                                                                 *)
(*                                                                         *)
(* A step of the session consumes one line of console input and runs the   *)
(* program up to its next input() call.                                    *)
(*                                                                         *)
(*   hire_records, next_customer_id   the fields of AppState               *)
(*   header, nights, returned_on_time, lines   the locals of run_hire_flow *)
(*   pc        the input() call at which control waits                     *)
(*   out       the arguments of the print() calls by which the step just   *)
(*             taken printed an earnings report or a saved-hire            *)
(*             confirmation, in order (empty when it printed neither; the  *)
(*             prompts, banners and error messages of the interactive      *)
(*             shell are not recorded)                                     *)
(*   last_op   outcome of the step just taken: the input was accepted or   *)
(*             rejected, a report was printed, a hire was saved            *)
(*   calc_args, calc_result   arguments and result of calc_line_costs when *)
(*             the pricing engine is exercised on its own                  *)
(*   run, fed, ledgers, at   used when a session is run a second time on   *)
(*             the same input: which of the two runs is under way, the     *)
(*             input lines the first run consumed, the ledger the first    *)
(*             run held at its start and after each of them, and how many  *)
(*             of them the second run has consumed                         *)
(***************************************************************************)
EXTENDS Integers, Sequences, FiniteSets, TLC

VARIABLES program, pc, hire_records, next_customer_id, header, nights,
          returned_on_time, lines, out, last_op, calc_args, calc_result,
          run, fed, ledgers, at

vars == <<program, pc, hire_records, next_customer_id, header, nights,
          returned_on_time, lines, out, last_op, calc_args, calc_result,
          run, fed, ledgers, at>>

session_vars == <<program, pc, hire_records, next_customer_id, header, nights,
                  returned_on_time, lines, out, last_op>>

pricing_vars == <<calc_args, calc_result>>

replay_vars == <<run, fed, ledgers, at>>

(***************************************************************************)
(* Bounds of the model.                                                    *)
(***************************************************************************)
MaxHires == 2

MaxLines == 2

MaxDaily == 7

MaxQty == 3

MaxNights == 3

MaxPence == 210

MaxWidth == 6

MaxFed == 12

(***************************************************************************)
(* Python text.                                                            *)
(*                                                                         *)
(* A str is the sequence of its characters, a character is its Unicode     *)
(* code point (ord), and Str(t) is the str a literal t of the source       *)
(* denotes.  Console input is text over U+0000..U+00FF; str.upper() takes  *)
(* it to U+0178 and U+039C as well, and the source itself writes U+2013    *)
(* (en dash) and U+2265 (greater-than-or-equal sign).  The literals are    *)
(* written with the characters U+0020..U+007E less the grave accent,       *)
(* U+00A1..U+00FF, and the escapes for tab, LF, FF and CR.                 *)
(***************************************************************************)
ASCII_UPPER_HALF ==
    " !\"#$%&'()*+,-./0123456789:;<=>?@ABCDEFGHIJKLMNOPQRSTUVWXYZ[\\]^_"

ASCII_LOWER_HALF ==
    "abcdefghijklmnopqrstuvwxyz{|}~"

LATIN1_PRINTABLE ==
    "¡¢£¤¥¦§¨©ª«¬­®¯°±²³´µ¶·¸¹º»¼½¾¿ÀÁÂÃÄÅÆÇÈÉÊËÌÍÎÏÐÑÒÓÔÕÖ×ØÙÚÛÜÝÞßàáâãäåæçèéêëìíîïðñòóôõö÷øùúûüýþÿ"

ord ==
    LET from(t, first) == {<<SubSeq(t, i, i), first + i - 1>> : i \in 1..Len(t)}
        pairs == from(ASCII_UPPER_HALF, 32) \cup from(ASCII_LOWER_HALF, 97)
                 \cup from(LATIN1_PRINTABLE, 161)
                 \cup {<<"\t", 9>>, <<"\n", 10>>, <<"\f", 12>>, <<"\r", 13>>}
    IN [c \in {p[1] : p \in pairs} |-> (CHOOSE p \in pairs : p[1] = c)[2]]

Str(t) == [i \in 1..Len(t) |-> ord[SubSeq(t, i, i)]]

EN_DASH == <<8211>>

GE_SIGN == <<8805>>

NONE == <<>>

CharAt(s, i) == SubSeq(s, i, i)

(***************************************************************************)
(* str.upper() and str.lower(), character by character: a-z and the        *)
(* lower-case letters U+00E0..U+00FE (U+00F7, the division sign, is none)  *)
(* lie 32 above their capitals; the micro sign U+00B5 goes to the Greek    *)
(* capital mu U+039C, sharp s U+00DF to "SS" and U+00FF to U+0178.         *)
(***************************************************************************)
upper_char(c) ==
    IF c \in 97..122 \/ (c \in 224..254 /\ c # 247) THEN <<c - 32>>
    ELSE IF c = 181 \/ c = 956 THEN <<924>>
    ELSE IF c = 223 THEN <<83, 83>>
    ELSE IF c = 255 THEN <<376>>
    ELSE <<c>>

lower_char(c) ==
    IF c \in 65..90 \/ (c \in 192..222 /\ c # 215) THEN <<c + 32>>
    ELSE IF c = 924 THEN <<956>>
    ELSE IF c = 376 THEN <<255>>
    ELSE <<c>>

RECURSIVE upper_from(_, _)
upper_from(s, i) ==
    IF i > Len(s) THEN <<>> ELSE upper_char(s[i]) \o upper_from(s, i + 1)

upper(s) == upper_from(s, 1)

RECURSIVE lower_from(_, _)
lower_from(s, i) ==
    IF i > Len(s) THEN <<>> ELSE lower_char(s[i]) \o lower_from(s, i + 1)

lower(s) == lower_from(s, 1)

(***************************************************************************)
(* str.strip() drops the characters with str.isspace(): tab, LF, VT, FF,   *)
(* CR, U+001C..U+001F, space, U+0085 and U+00A0.                           *)
(***************************************************************************)
WhitespaceChars == {9, 10, 11, 12, 13, 28, 29, 30, 31, 32, 133, 160}

is_space(c) == c \in WhitespaceChars

RECURSIVE first_non_space(_, _)
first_non_space(s, i) ==
    IF i > Len(s) THEN i
    ELSE IF is_space(s[i]) THEN first_non_space(s, i + 1) ELSE i

RECURSIVE last_non_space(_, _)
last_non_space(s, i) ==
    IF i < 1 THEN 0
    ELSE IF is_space(s[i]) THEN last_non_space(s, i - 1) ELSE i

strip(s) ==
    LET a == first_non_space(s, 1)
        b == last_non_space(s, Len(s))
    IN IF a > b THEN <<>> ELSE SubSeq(s, a, b)

split(s, sep) ==
    LET hits == {k \in 1..Len(s) : CharAt(s, k) = sep}
        n == Cardinality(hits)
        nth(j) == CHOOSE k \in hits : Cardinality({h \in hits : h < k}) = j - 1
        cut(j) == IF j = 0 THEN 0 ELSE IF j = n + 1 THEN Len(s) + 1 ELSE nth(j)
    IN [j \in 1..(n + 1) |-> SubSeq(s, cut(j - 1) + 1, cut(j) - 1)]

RECURSIVE join(_, _)
join(sep, parts) ==
    IF parts = <<>> THEN <<>>
    ELSE IF Len(parts) = 1 THEN parts[1]
    ELSE parts[1] \o sep \o join(sep, Tail(parts))

spaces(n) == [i \in 1..n |-> 32]

ljust(s, width) == s \o spaces(width - Len(s))

rjust(s, width) == spaces(width - Len(s)) \o s

slice(s, from, to) ==
    LET hi == IF to > Len(s) THEN Len(s) ELSE to
    IN IF from >= hi THEN <<>> ELSE SubSeq(s, from + 1, hi)

(***************************************************************************)
(* str.isdigit() holds of the digits 0-9 and of the superscript digits     *)
(* U+00B2, U+00B3 and U+00B9; int() reads the digits 0-9 only.             *)
(***************************************************************************)
DigitChars == 48..57 \cup {178, 179, 185}

DecimalChars == 48..57

is_digit_char(c) == c \in DigitChars

RECURSIVE isdigit_from(_, _)
isdigit_from(s, i) ==
    i > Len(s) \/ (is_digit_char(s[i]) /\ isdigit_from(s, i + 1))

isdigit(s) == s # <<>> /\ isdigit_from(s, 1)

digits_of(s) == SelectSeq(s, is_digit_char)

RECURSIVE digits_value_from(_, _, _)
digits_value_from(s, i, acc) ==
    IF i > Len(s) THEN acc
    ELSE digits_value_from(s, i + 1, 10 * acc + (s[i] - 48))

digits_value(s, acc) == digits_value_from(s, 1, acc)

(***************************************************************************)
(* int(s): the whitespace around the number is dropped (tab, LF, VT, FF,   *)
(* CR, space, U+0085, U+00A0; not U+001C..U+001F), one sign may lead, and  *)
(* the rest is decimal digits with single underscores allowed between      *)
(* them.                                                                   *)
(***************************************************************************)
IntWhitespaceChars == {9, 10, 11, 12, 13, 32, 133, 160}

PLUS == 43

MINUS == 45

UNDERSCORE == 95

is_decimal_char(c) == c \in DecimalChars

RECURSIVE int_first(_, _)
int_first(s, i) ==
    IF i > Len(s) THEN i
    ELSE IF s[i] \in IntWhitespaceChars THEN int_first(s, i + 1) ELSE i

RECURSIVE int_last(_, _)
int_last(s, i) ==
    IF i < 1 THEN 0
    ELSE IF s[i] \in IntWhitespaceChars THEN int_last(s, i - 1) ELSE i

int_strip(s) ==
    LET a == int_first(s, 1)
        b == int_last(s, Len(s))
    IN IF a > b THEN <<>> ELSE SubSeq(s, a, b)

int_text(s) ==
    LET t == int_strip(s)
    IN IF t # <<>> /\ Head(t) \in {PLUS, MINUS} THEN Tail(t) ELSE t

int_body(s) == SelectSeq(int_text(s), LAMBDA c : c # UNDERSCORE)

int_ok(s) ==
    LET u == int_text(s) IN
    /\ u # <<>>
    /\ \A k \in 1..Len(u) : is_decimal_char(u[k]) \/ u[k] = UNDERSCORE
    /\ u[1] # UNDERSCORE
    /\ u[Len(u)] # UNDERSCORE
    /\ \A k \in 1..(Len(u) - 1) : ~(u[k] = UNDERSCORE /\ u[k + 1] = UNDERSCORE)

int_value(s) ==
    LET t == int_strip(s)
        v == digits_value(int_body(s), 0)
    IN IF t # <<>> /\ Head(t) = MINUS THEN 0 - v ELSE v

str(n) == Str(ToString(n))

fmt02d(n) == IF n < 10 THEN Str("0") \o str(n) ELSE str(n)

RECURSIVE fmt_thousands(_)
fmt_thousands(n) ==
    IF n < 1000 THEN str(n)
    ELSE LET r == n % 1000
             g == IF r < 10 THEN Str("00") \o str(r)
                  ELSE IF r < 100 THEN Str("0") \o str(r) ELSE str(r)
         IN fmt_thousands(n \div 1000) \o Str(",") \o g

max(a, b) == IF a >= b THEN a ELSE b

RECURSIVE sum(_)
sum(s) == IF s = <<>> THEN 0 ELSE Head(s) + sum(Tail(s))

(***************************************************************************)
(* Catalogue and pricing rules.                                            *)
(***************************************************************************)
CATALOG ==
    << [code |-> Str("DCH"), name |-> Str("Day chairs"), daily_p |-> 1500],
       [code |-> Str("BCH"), name |-> Str("Bed chairs"), daily_p |-> 2500],
       [code |-> Str("BAS"), name |-> Str("Bite Alarm (set of 3)"), daily_p |-> 2000],
       [code |-> Str("BA1"), name |-> Str("Bite Alarm (single)"), daily_p |-> 500],
       [code |-> Str("BBT"), name |-> Str("Bait Boat"), daily_p |-> 6000],
       [code |-> Str("TNT"), name |-> Str("Camping tent"), daily_p |-> 2000],
       [code |-> Str("SLP"), name |-> Str("Sleeping bag"), daily_p |-> 2000],
       [code |-> Str("R3T"), name |-> Str("Rods (3lb TC)"), daily_p |-> 1000],
       [code |-> Str("RBR"), name |-> Str("Rods (Bait runners)"), daily_p |-> 500],
       [code |-> Str("REB"), name |-> Str("Reels (Bait runners)"), daily_p |-> 1000],
       [code |-> Str("STV"), name |-> Str("Camping Gas stove (Double burner)"), daily_p |-> 1000] >>

ADDITIONAL_NIGHT_MULTIPLIER_NUM == 1

ADDITIONAL_NIGHT_MULTIPLIER_DEN == 2

money_unpadded(pence) ==
    LET pounds == pence \div 100
        pennies == pence % 100
    IN Str("£") \o str(pounds) \o Str(".") \o str(pennies)

money(pence) ==
    LET pounds == pence \div 100
        pennies == pence % 100
    IN Str("£") \o str(pounds) \o Str(".") \o fmt02d(pennies)

wip_money(pence) ==
    LET pounds == pence \div 100
        pennies == pence % 100
    IN Str("£") \o fmt_thousands(pounds) \o Str(".") \o fmt02d(pennies)

find_item_case_sensitive(code) ==
    LET hits == {i \in 1..Len(CATALOG) : CATALOG[i].code = code}
    IN IF hits = {} THEN NONE
       ELSE CATALOG[CHOOSE i \in hits : \A j \in hits : i <= j]

find_item(code) ==
    LET c == upper(code)
        hits == {i \in 1..Len(CATALOG) : CATALOG[i].code = c}
    IN IF hits = {} THEN NONE
       ELSE CATALOG[CHOOSE i \in hits : \A j \in hits : i <= j]

catalog_codes == join(Str(", "), [i \in 1..Len(CATALOG) |-> CATALOG[i].code])

calc_line_costs_floor_last(daily_p, qty, n, on_time) ==
    LET first_night_p == daily_p * qty
        add_per_night == (daily_p * qty * ADDITIONAL_NIGHT_MULTIPLIER_NUM)
                             \div ADDITIONAL_NIGHT_MULTIPLIER_DEN
        additional_p == (daily_p * qty * ADDITIONAL_NIGHT_MULTIPLIER_NUM * max(0, n - 1))
                             \div ADDITIONAL_NIGHT_MULTIPLIER_DEN
        extra_delay_p == IF on_time THEN 0 ELSE add_per_night
    IN <<first_night_p, additional_p, extra_delay_p>>

calc_line_costs_late_per_night(daily_p, qty, n, on_time) ==
    LET first_night_p == daily_p * qty
        add_per_night == (daily_p * qty * ADDITIONAL_NIGHT_MULTIPLIER_NUM)
                             \div ADDITIONAL_NIGHT_MULTIPLIER_DEN
        additional_p == add_per_night * max(0, n - 1)
        extra_delay_p == IF on_time THEN 0 ELSE add_per_night * n
    IN <<first_night_p, additional_p, extra_delay_p>>

calc_line_costs_late_full_night(daily_p, qty, n, on_time) ==
    LET first_night_p == daily_p * qty
        add_per_night == (daily_p * qty * ADDITIONAL_NIGHT_MULTIPLIER_NUM)
                             \div ADDITIONAL_NIGHT_MULTIPLIER_DEN
        additional_p == add_per_night * max(0, n - 1)
        extra_delay_p == IF on_time THEN 0 ELSE first_night_p
    IN <<first_night_p, additional_p, extra_delay_p>>

calc_line_costs_half_rounded_up(daily_p, qty, n, on_time) ==
    LET first_night_p == daily_p * qty
        add_per_night == (daily_p * qty * ADDITIONAL_NIGHT_MULTIPLIER_NUM + 1)
                             \div ADDITIONAL_NIGHT_MULTIPLIER_DEN
        additional_p == add_per_night * max(0, n - 1)
        extra_delay_p == IF on_time THEN 0 ELSE add_per_night
    IN <<first_night_p, additional_p, extra_delay_p>>

(***************************************************************************)
(* The reference computation of the test script (test_system.py).          *)
(***************************************************************************)
reference_line_costs(daily, qty, n, on_time) ==
    LET first_night_p == daily * qty
        additional_n == max(0, n - 1)
        additional_p == (daily * qty * additional_n) \div 2
        late_extra_p == IF on_time THEN 0 ELSE (daily * qty) \div 2
    IN <<first_night_p, additional_p, late_extra_p>>

calc_line_costs(daily_p, qty, n, on_time) ==
    LET first_night_p == daily_p * qty
        add_per_night == (daily_p * qty * ADDITIONAL_NIGHT_MULTIPLIER_NUM)
                             \div ADDITIONAL_NIGHT_MULTIPLIER_DEN
        additional_p == add_per_night * max(0, n - 1)
        extra_delay_p == IF on_time THEN 0 ELSE add_per_night
    IN <<first_night_p, additional_p, extra_delay_p>>

wip_calc_line_costs(daily_p, qty, n, on_time) ==
    LET first_night_p == daily_p * qty
        add_per_night == (daily_p * qty * ADDITIONAL_NIGHT_MULTIPLIER_NUM)
                             \div ADDITIONAL_NIGHT_MULTIPLIER_DEN
        additional_p == add_per_night * max(0, n - 1)
        extra_delay_p == IF on_time THEN 0 ELSE add_per_night
    IN <<first_night_p, additional_p, extra_delay_p>>

wiptask2_calc_line_costs(daily_p, qty, n, on_time) ==
    LET first_night_p == daily_p * qty
        add_per_night == (daily_p * qty * ADDITIONAL_NIGHT_MULTIPLIER_NUM)
                             \div ADDITIONAL_NIGHT_MULTIPLIER_DEN
        additional_p == add_per_night * max(0, n - 1)
        extra_delay_p == IF on_time THEN 0 ELSE add_per_night
    IN <<first_night_p, additional_p, extra_delay_p>>

wiptask3_calc_line_costs(daily_p, qty, n, on_time) ==
    LET first_night_p == daily_p * qty
        add_per_night == (daily_p * qty * ADDITIONAL_NIGHT_MULTIPLIER_NUM)
                             \div ADDITIONAL_NIGHT_MULTIPLIER_DEN
        additional_p == add_per_night * max(0, n - 1)
        extra_delay_p == IF on_time THEN 0 ELSE add_per_night
    IN <<first_night_p, additional_p, extra_delay_p>>

bak3_calc_line_costs(daily_p, qty, n, on_time) ==
    LET first == daily_p * qty
        add_each == (daily_p * qty * ADDITIONAL_NIGHT_MULTIPLIER_NUM)
                        \div ADDITIONAL_NIGHT_MULTIPLIER_DEN
        additional == add_each * max(0, n - 1)
        extra == IF on_time THEN 0 ELSE add_each
    IN <<first, additional, extra>>

calc_line_costs_of(prog, daily_p, qty, n, on_time) ==
    IF prog = "hailmary" THEN calc_line_costs(daily_p, qty, n, on_time)
    ELSE IF prog = "wip" THEN wip_calc_line_costs(daily_p, qty, n, on_time)
    ELSE IF prog = "wiptask2" THEN wiptask2_calc_line_costs(daily_p, qty, n, on_time)
    ELSE IF prog = "wiptask3" THEN wiptask3_calc_line_costs(daily_p, qty, n, on_time)
    ELSE bak3_calc_line_costs(daily_p, qty, n, on_time)

(***************************************************************************)
(* Pure parsers.  A parser returns [ok |-> TRUE, value |-> v] or, where    *)
(* the code raises ValueError or prints a message and gives up,            *)
(* [ok |-> FALSE, error |-> message].  wip.py and wiptask3.py call int()   *)
(* outside any try block once str.isdigit() has passed; text that          *)
(* isdigit() accepts and int() does not (a superscript digit) raises a     *)
(* ValueError nothing catches, which is UncaughtValueError.                *)
(***************************************************************************)
Ok(v) == [ok |-> TRUE, value |-> v]

Err(m) == [ok |-> FALSE, error |-> m]

UncaughtValueError == [ok |-> FALSE, uncaught |-> "ValueError"]

split_strip(raw) ==
    LET ps == split(raw, Str(",")) IN [i \in 1..Len(ps) |-> strip(ps[i])]

_parse_customer_header(raw) ==
    LET parts == split_strip(raw) IN
    IF Len(parts) # 5 THEN Err(Str("Expected 5 fields separated by commas."))
    ELSE LET name == parts[1]
             phone_digits == digits_of(parts[2])
             card_digits == digits_of(parts[5])
         IN IF name = <<>> THEN Err(Str("Name cannot be empty."))
            ELSE IF Len(phone_digits) < 7
                 THEN Err(Str("Phone should contain at least 7 digits."))
            ELSE IF Len(card_digits) # 4
                 THEN Err(Str("Card last 4 digits must be exactly 4 digits."))
            ELSE Ok([customer_name |-> name,
                     phone |-> phone_digits,
                     house_no |-> strip(parts[3]),
                     postcode |-> upper(strip(parts[4])),
                     card_last4 |-> card_digits])

bak3_parse_customer_header(raw) ==
    LET parts == split_strip(raw) IN
    IF Len(parts) # 6 THEN Err(Str("Expected 6 fields separated by commas."))
    ELSE LET id_s == parts[1]
             name == parts[2]
             phone_digits == digits_of(parts[3])
             card_digits == digits_of(parts[6])
         IN IF ~int_ok(id_s) THEN Err(Str("Customer ID must be a whole number."))
            ELSE IF int_value(id_s) <= 0
                 THEN Err(Str("Customer ID must be ") \o GE_SIGN \o Str(" 1."))
            ELSE IF name = <<>> THEN Err(Str("Name cannot be empty."))
            ELSE IF Len(phone_digits) < 7
                 THEN Err(Str("Phone should contain at least 7 digits."))
            ELSE IF Len(card_digits) # 4
                 THEN Err(Str("Card last 4 digits must be exactly 4 digits."))
            ELSE Ok([customer_id |-> int_value(id_s),
                     customer_name |-> name,
                     phone |-> phone_digits,
                     house_no |-> parts[4],
                     postcode |-> upper(parts[5]),
                     card_last4 |-> card_digits])

_parse_item_line_any_quantity(raw) ==
    LET parts == split_strip(raw) IN
    IF Len(parts) # 2 THEN Err(Str("Expected 2 fields: CODE, quantity"))
    ELSE LET code == upper(parts[1])
             qty_s == parts[2]
         IN IF find_item(code) = NONE
            THEN Err(Str("Unknown code '") \o code \o Str("'. Known: ") \o catalog_codes)
            ELSE IF ~int_ok(qty_s) THEN Err(Str("Quantity must be a whole number."))
            ELSE Ok(<<code, int_value(qty_s)>>)

_parse_item_line(raw) ==
    LET parts == split_strip(raw) IN
    IF Len(parts) # 2 THEN Err(Str("Expected 2 fields: CODE, quantity"))
    ELSE LET code == upper(parts[1])
             qty_s == parts[2]
         IN IF find_item(code) = NONE
            THEN Err(Str("Unknown code '") \o code \o Str("'. Known: ") \o catalog_codes)
            ELSE IF ~int_ok(qty_s) THEN Err(Str("Quantity must be a whole number."))
            ELSE IF int_value(qty_s) < 1
                 THEN Err(Str("Quantity must be ") \o GE_SIGN \o Str(" 1."))
            ELSE Ok(<<code, int_value(qty_s)>>)

RECURSIVE csv_scan(_, _, _, _, _)
csv_scan(line, i, in_quotes, buf, fields) ==
    IF i > Len(line) THEN Append(fields, strip(buf))
    ELSE LET ch == CharAt(line, i) IN
         IF ch = Str("\"")
         THEN IF in_quotes /\ i + 1 <= Len(line) /\ CharAt(line, i + 1) = Str("\"")
              THEN csv_scan(line, i + 2, in_quotes, buf \o Str("\""), fields)
              ELSE csv_scan(line, i + 1, ~in_quotes, buf, fields)
         ELSE IF ch = Str(",") /\ ~in_quotes
              THEN csv_scan(line, i + 1, in_quotes, <<>>, Append(fields, strip(buf)))
              ELSE csv_scan(line, i + 1, in_quotes, buf \o ch, fields)

parse_csv_2_fields(raw) ==
    LET line == strip(raw) IN
    IF line = <<>> THEN NONE
    ELSE LET fields == csv_scan(line, 1, FALSE, <<>>, <<>>)
         IN IF Len(fields) # 2 THEN NONE ELSE fields

inline_item_checks(code_s, qty_s) ==
    LET code == upper(code_s) IN
    IF find_item(code) = NONE
    THEN Err(Str("Unknown code '") \o code \o Str("'. Known: ") \o catalog_codes)
    ELSE IF ~isdigit(qty_s) THEN Err(Str("Quantity must be a whole number."))
    ELSE IF ~int_ok(qty_s) THEN UncaughtValueError
    ELSE IF int_value(qty_s) < 1
         THEN Err(Str("Quantity must be ") \o GE_SIGN \o Str(" 1."))
    ELSE Ok(<<code, int_value(qty_s)>>)

wip_parse_item_line(raw) ==
    LET parsed == parse_csv_2_fields(raw) IN
    IF parsed = NONE THEN Err(Str("Expected 2 fields: CODE, quantity"))
    ELSE inline_item_checks(parsed[1], parsed[2])

wiptask3_parse_item_line(raw) ==
    LET parts == split_strip(raw) IN
    IF Len(parts) # 2 THEN Err(Str("Expected 2 fields: CODE, quantity"))
    ELSE inline_item_checks(parts[1], parts[2])

parse_item_line(prog, raw) ==
    IF prog = "wip" THEN wip_parse_item_line(raw)
    ELSE IF prog = "wiptask3" THEN wiptask3_parse_item_line(raw)
    ELSE _parse_item_line(raw)

UsesIntParse(prog) == prog \in {"hailmary", "wiptask2", "wiptask3_bak3"}

read_choice_without_exit(prog, raw) ==
    LET s == strip(raw) IN
    IF int_ok(s) /\ int_value(s) \in {1, 2} THEN Ok(int_value(s)) ELSE NONE

read_choice(prog, raw) ==
    LET s == strip(raw) IN
    IF UsesIntParse(prog)
    THEN IF int_ok(s) /\ int_value(s) \in {1, 2, 3} THEN Ok(int_value(s)) ELSE NONE
    ELSE IF ~isdigit(s) THEN NONE
    ELSE IF ~int_ok(s) THEN UncaughtValueError
    ELSE IF int_value(s) \in {1, 2, 3} THEN Ok(int_value(s)) ELSE NONE

read_yes_no(raw) ==
    LET s == lower(strip(raw)) IN
    IF s \in {Str("y"), Str("yes")} THEN Ok(TRUE)
    ELSE IF s \in {Str("n"), Str("no")} THEN Ok(FALSE)
    ELSE Err(Str("Please enter 'y' or 'n'."))

read_positive_int_any_sign(prog, raw, min_value) ==
    IF int_ok(raw) THEN Ok(int_value(raw)) ELSE Err(Str("Please enter a whole number."))

read_positive_int(prog, raw, min_value) ==
    LET s == strip(raw)
        parsed == IF UsesIntParse(prog) THEN int_ok(s) ELSE isdigit(s)
        n == int_value(s)
    IN IF ~parsed THEN Err(Str("Please enter a whole number."))
       ELSE IF ~int_ok(s) THEN UncaughtValueError
       ELSE IF n < min_value
            THEN Err(Str("Please enter a number ") \o GE_SIGN \o Str(" ") \o str(min_value) \o Str("."))
       ELSE Ok(n)

(***************************************************************************)
(* Line items and hire records.                                            *)
(***************************************************************************)
make_line_total_without_late(prog, code, qty, n, on_time) ==
    LET item == find_item(code)
        daily == item.daily_p
        costs == calc_line_costs_of(prog, daily, qty, n, on_time)
    IN [code |-> code,
        name |-> item.name,
        qty |-> qty,
        daily_p |-> daily,
        first_night_p |-> costs[1],
        additional_nights_p |-> costs[2],
        extra_delay_p |-> costs[3],
        line_total_p |-> costs[1] + costs[2]]

make_line_named_after_first_entry(prog, code, qty, n, on_time) ==
    LET item == find_item(code)
        daily == item.daily_p
        costs == calc_line_costs_of(prog, daily, qty, n, on_time)
    IN [code |-> code,
        name |-> CATALOG[1].name,
        qty |-> qty,
        daily_p |-> daily,
        first_night_p |-> costs[1],
        additional_nights_p |-> costs[2],
        extra_delay_p |-> costs[3],
        line_total_p |-> costs[1] + costs[2] + costs[3]]

make_line(prog, code, qty, n, on_time) ==
    LET item == find_item(code)
        daily == item.daily_p
        costs == calc_line_costs_of(prog, daily, qty, n, on_time)
    IN [code |-> code,
        name |-> item.name,
        qty |-> qty,
        daily_p |-> daily,
        first_night_p |-> costs[1],
        additional_nights_p |-> costs[2],
        extra_delay_p |-> costs[3],
        line_total_p |-> costs[1] + costs[2] + costs[3]]

items_summary_reversed(ls) ==
    join(Str(", "), [i \in 1..Len(ls) |->
                   ls[Len(ls) + 1 - i].name \o Str(" ") \o EN_DASH \o Str(" ")
                       \o str(ls[Len(ls) + 1 - i].qty)])

items_summary_of(ls) ==
    join(Str(", "), [i \in 1..Len(ls) |-> ls[i].name \o Str(" ") \o EN_DASH \o Str(" ") \o str(ls[i].qty)])

StoresFlagAsText(prog) == prog \in {"wip", "wiptask3"}

make_hire_total_of_first_line(prog, id, hdr, n, on_time, ls) ==
    [customer_id |-> id,
     customer_name |-> hdr.customer_name,
     nights |-> n,
     returned_on_time |-> IF StoresFlagAsText(prog)
                          THEN (IF on_time THEN Str("y") ELSE Str("n")) ELSE on_time,
     lines |-> ls,
     extra_delay_p |-> sum([i \in 1..Len(ls) |-> ls[i].extra_delay_p]),
     total_p |-> ls[1].line_total_p,
     items_summary |-> items_summary_of(ls)]

make_hire(prog, id, hdr, n, on_time, ls) ==
    [customer_id |-> id,
     customer_name |-> hdr.customer_name,
     nights |-> n,
     returned_on_time |-> IF StoresFlagAsText(prog)
                          THEN (IF on_time THEN Str("y") ELSE Str("n")) ELSE on_time,
     lines |-> ls,
     extra_delay_p |-> sum([i \in 1..Len(ls) |-> ls[i].extra_delay_p]),
     total_p |-> sum([i \in 1..Len(ls) |-> ls[i].line_total_p]),
     items_summary |-> items_summary_of(ls)]

prog_money(prog, pence) == IF prog = "wip" THEN wip_money(pence) ELSE money(pence)

on_time_char(prog, hire) ==
    IF StoresFlagAsText(prog) THEN hire.returned_on_time
    ELSE IF hire.returned_on_time THEN Str("y") ELSE Str("n")

saved_hire_banner(prog) ==
    IF prog = "wiptask2" THEN Str("\nSaved hire (Task 2):") ELSE Str("\nSaved hire:")

saved_hire_lines(prog, hire) ==
    << saved_hire_banner(prog),
       Str("  Customer ID: ") \o str(hire.customer_id),
       Str("  Customer:    ") \o hire.customer_name,
       Str("  Equipment:   ") \o hire.items_summary,
       Str("  Nights:      ") \o str(hire.nights),
       Str("  Returned on time: ") \o on_time_char(prog, hire),
       Str("  Extra charge for delayed return: ") \o prog_money(prog, hire.extra_delay_p),
       Str("  Total cost:  ") \o prog_money(prog, hire.total_p) \o Str("\n") >>

(***************************************************************************)
(* Earnings reports.  A report is the sequence of the arguments of its     *)
(* print() calls, in order.                                                *)
(***************************************************************************)
RECURSIVE repeat(_, _)
repeat(c, n) ==
    IF n <= 0 THEN <<>>
    ELSE LET half == repeat(c, n \div 2)
         IN half \o half \o (IF n % 2 = 1 THEN c ELSE <<>>)

NO_HIRES_LINE == Str("\nNo hires recorded yet.")

TABLE_HEADER ==
    Str("Customer ID | Equipment                                                       | Number of nights | Total Cost | Returned on time (y/n) | Extra charge for delayed return")

TABLE_SEPARATOR ==
    Str("------------+-----------------------------------------------------------------+------------------+------------+------------------------+--------------------------------")

EQUIP_W == 65

WIP_EQUIP_W == 45

hailmary_row_cells_flag_swapped(hire) ==
    LET cust_id == hire.customer_id
        equipment_str == hire.items_summary
        total_pounds == hire.total_p \div 100
        extra_pounds == hire.extra_delay_p \div 100
        on_time == IF hire.returned_on_time THEN Str("n") ELSE Str("y")
    IN << ljust(str(cust_id), 11),
          ljust(equipment_str, EQUIP_W),
          ljust(str(hire.nights), 16),
          ljust(str(total_pounds), 10),
          ljust(on_time, 22),
          ljust(str(extra_pounds), 30) >>

hailmary_row_cells(hire) ==
    LET cust_id == hire.customer_id
        equipment_str == hire.items_summary
        total_pounds == hire.total_p \div 100
        extra_pounds == hire.extra_delay_p \div 100
        on_time == IF hire.returned_on_time THEN Str("y") ELSE Str("n")
    IN << ljust(str(cust_id), 11),
          ljust(equipment_str, EQUIP_W),
          ljust(str(hire.nights), 16),
          ljust(str(total_pounds), 10),
          ljust(on_time, 22),
          ljust(str(extra_pounds), 30) >>

run_earnings_report_unguarded(records) ==
    <<TABLE_HEADER, TABLE_SEPARATOR>>
    \o [i \in 1..Len(records) |-> join(Str(" | "), hailmary_row_cells(records[i]))]

run_earnings_report_first_record_only(records) ==
    IF records = <<>> THEN <<NO_HIRES_LINE>>
    ELSE <<TABLE_HEADER, TABLE_SEPARATOR, join(Str(" | "), hailmary_row_cells(records[1]))>>

run_earnings_report(records) ==
    IF records = <<>> THEN <<NO_HIRES_LINE>>
    ELSE <<TABLE_HEADER, TABLE_SEPARATOR>>
         \o [i \in 1..Len(records) |-> join(Str(" | "), hailmary_row_cells(records[i]))]

WIP_RULE == repeat(Str("-"), 118)

wip_header ==
    ljust(Str("ID"), 4) \o Str(" | ") \o ljust(Str("Customer Name"), 20) \o Str(" | ")
    \o ljust(Str("Equipment (Name ") \o EN_DASH \o Str(" Qty)"), WIP_EQUIP_W) \o Str(" | ")
    \o rjust(Str("Nights"), 6) \o Str(" | ") \o rjust(Str("On-Time"), 7) \o Str(" | ")
    \o rjust(Str("Late Fee"), 10) \o Str(" | ") \o rjust(Str("Total Cost"), 12)

wip_row_cells(record) ==
    LET items_summary == IF Len(record.items_summary) > WIP_EQUIP_W
                         THEN slice(record.items_summary, 0, 42) \o Str("...")
                         ELSE record.items_summary
    IN << ljust(str(record.customer_id), 4),
          ljust(record.customer_name, 20),
          ljust(items_summary, WIP_EQUIP_W),
          rjust(str(record.nights), 6),
          rjust(record.returned_on_time, 7),
          rjust(wip_money(record.extra_delay_p), 10),
          rjust(wip_money(record.total_p), 12) >>

wip_run_earnings_report_skips_first(records) ==
    IF records = <<>> THEN <<NO_HIRES_LINE>>
    ELSE LET grand_total == sum([i \in 1..(Len(records) - 1) |-> records[i + 1].total_p])
         IN << Str("\n") \o WIP_RULE, Str("Earnings Report"), WIP_RULE, wip_header, WIP_RULE >>
            \o [i \in 1..Len(records) |-> join(Str(" | "), wip_row_cells(records[i]))]
            \o << WIP_RULE,
                  rjust(Str("TOTAL EARNINGS"), 100) \o Str(" : ") \o rjust(wip_money(grand_total), 15) >>

wip_run_earnings_report(records) ==
    IF records = <<>> THEN <<NO_HIRES_LINE>>
    ELSE LET grand_total == sum([i \in 1..Len(records) |-> records[i].total_p])
         IN << Str("\n") \o WIP_RULE, Str("Earnings Report"), WIP_RULE, wip_header, WIP_RULE >>
            \o [i \in 1..Len(records) |-> join(Str(" | "), wip_row_cells(records[i]))]
            \o << WIP_RULE,
                  rjust(Str("TOTAL EARNINGS"), 100) \o Str(" : ") \o rjust(wip_money(grand_total), 15) >>

wiptask3_hire_block(hire) ==
    << Str("Customer ") \o str(hire.customer_id) \o Str(" ") \o EN_DASH \o Str(" ") \o hire.customer_name,
       Str("  Items:  ") \o hire.items_summary,
       Str("  Total:  ") \o money(hire.total_p),
       Str("  Delay:  ") \o money(hire.extra_delay_p),
       <<>> >>

RECURSIVE concat(_)
concat(ss) == IF ss = <<>> THEN <<>> ELSE Head(ss) \o concat(Tail(ss))

wiptask3_run_earnings_report(records) ==
    IF records = <<>> THEN <<NO_HIRES_LINE>>
    ELSE LET grand_total == sum([i \in 1..Len(records) |-> records[i].total_p])
             grand_delay == sum([i \in 1..Len(records) |-> records[i].extra_delay_p])
         IN << Str("\n=== Earnings Report ===") >>
            \o concat([i \in 1..Len(records) |-> wiptask3_hire_block(records[i])])
            \o << Str("--- Totals ---"),
                  Str("Grand total earnings: ") \o money(grand_total),
                  Str("Of which late-return charges: ") \o money(grand_delay) >>

RECURSIVE wrap_chunks(_, _)
wrap_chunks(item, width) ==
    IF item = <<>> THEN <<>>
    ELSE LET chunk == slice(item, 0, width)
         IN <<IF Len(chunk) = width THEN chunk ELSE ljust(chunk, width)>>
            \o wrap_chunks(slice(item, width, Len(item)), width)

wrap_flush_unpadded(ls, cur, width) == IF cur # <<>> THEN Append(ls, cur) ELSE ls

wrap_flush(ls, cur, width) == IF cur # <<>> THEN Append(ls, ljust(cur, width)) ELSE ls

RECURSIVE wrap_loop(_, _, _, _)
wrap_loop(items, width, ls, cur) ==
    IF items = <<>>
    THEN IF cur # <<>> \/ ls = <<>> THEN Append(ls, ljust(cur, width)) ELSE ls
    ELSE LET item == Head(items) IN
         IF Len(item) > width
         THEN wrap_loop(Tail(items), width,
                        wrap_flush(ls, cur, width) \o wrap_chunks(item, width), <<>>)
         ELSE LET token == (IF cur # <<>> THEN Str(", ") ELSE <<>>) \o item IN
              IF Len(cur) + Len(token) <= width
              THEN wrap_loop(Tail(items), width, ls, cur \o token)
              ELSE wrap_loop(Tail(items), width, wrap_flush(ls, cur, width), item)

_wrap_equipment(text, width) ==
    LET parts == split_strip(text)
        items == SelectSeq(parts, LAMBDA p : p # <<>>)
    IN wrap_loop(items, width, <<>>, <<>>)

bak3_first_row_cells(h, first) ==
    << ljust(str(h.customer_id), 11),
       first,
       ljust(str(h.nights), 16),
       ljust(money(h.total_p), 10),
       ljust(IF h.returned_on_time THEN Str("y") ELSE Str("n"), 22),
       ljust(money(h.extra_delay_p), 30) >>

bak3_cont_row_cells(cont) ==
    << ljust(<<>>, 11), cont, ljust(<<>>, 16), ljust(<<>>, 10), ljust(<<>>, 22), ljust(<<>>, 30) >>

bak3_hire_rows(h) ==
    LET wrapped == _wrap_equipment(h.items_summary, EQUIP_W)
    IN << join(Str(" | "), bak3_first_row_cells(h, wrapped[1])) >>
       \o [k \in 1..(Len(wrapped) - 1) |-> join(Str(" | "), bak3_cont_row_cells(wrapped[k + 1]))]

bak3_run_earnings_report(records) ==
    IF records = <<>> THEN <<NO_HIRES_LINE>>
    ELSE <<TABLE_HEADER, TABLE_SEPARATOR>>
         \o concat([i \in 1..Len(records) |-> bak3_hire_rows(records[i])])

HasReport(prog) == prog # "wiptask2"

NO_REPORT_LINE == Str("(Task 3) Report is not implemented in Task 2.")

report_of(prog, records) ==
    IF prog = "hailmary" THEN run_earnings_report(records)
    ELSE IF prog = "wip" THEN wip_run_earnings_report(records)
    ELSE IF prog = "wiptask3" THEN wiptask3_run_earnings_report(records)
    ELSE bak3_run_earnings_report(records)

(***************************************************************************)
(* Console input offered to the session at each prompt.                    *)
(***************************************************************************)
Programs == {"hailmary", "wip", "wiptask2", "wiptask3", "wiptask3_bak3"}

ChoiceInputs ==
    {Str(t) : t \in
         {"1", "2", "3", " 3 ", "+1", "4", "0", "x", "", "²"}}

HeaderInputs ==
    {Str(t) : t \in
         {"", "cancel", "CANCEL",
          "Jane Smith, 07900 111222, 12, le1 2ab, 1234",
          "Jane Smith, 07900111222, 12, LE1 2AB",
          ", 07900111222, 12, LE1 2AB, 1234",
          "Jane Smith, 12345, 12, LE1 2AB, 1234",
          "Jane Smith, 07900111222, 12, LE1 2AB, 12345",
          "101, Jane Smith, 07900111222, 12, le1 2ab, 1234",
          "7, Bob Ray, 07900111333, 3b, LS1 4XY, 2222",
          "0, Bob Ray, 07900111333, 3b, LS1 4XY, 2222",
          "x, Bob Ray, 07900111333, 3b, LS1 4XY, 2222"}}

NightsInputs ==
    {Str(t) : t \in
         {" 3", "+3", "0_3", "\t3", "0", "-2", "two", "", "²"}}
    \cup {<<11, 51>>, <<28, 51, 160>>}

YesNoInputs ==
    {Str(t) : t \in
         {"y", "YES", "n", " No ", "maybe", ""}}

ItemInputs ==
    {Str(t) : t \in
         {"", "dch, 1", "STV,1", "DCH,\t0_1", "XXX, 1", "DCH", "DCH, 0", "DCH, -1",
          "DCH, +1x", "DCH, _1", "DCH, ²", "ÿ, 1", "STV, one"}}

DraftItemInputs ==
    {Str(t) : t \in
         {"", " ", "STV,1", "stv, +1", "\"stv\", 1", "XXX, 1", "STV", "STV, 0", "STV, one",
          "STV, ²"}}

AllItemInputs == ItemInputs \cup DraftItemInputs

(***************************************************************************)
(* The readers applied to every offered input, for every draft (evaluated  *)
(* once; the actions look the outcome up).                                 *)
(***************************************************************************)
LoopsOnBadHeader(prog) == prog \in {"hailmary", "wiptask2", "wiptask3_bak3"}

parse_header(prog, raw) ==
    IF prog = "wiptask3_bak3" THEN bak3_parse_customer_header(raw)
    ELSE _parse_customer_header(raw)

is_cancel(prog, raw) ==
    IF LoopsOnBadHeader(prog) THEN lower(strip(raw)) \in {<<>>, Str("cancel")}
    ELSE strip(raw) = <<>>

ChoiceOutcome ==
    [prog \in Programs |-> [raw \in ChoiceInputs |-> read_choice(prog, raw)]]

HeaderOutcome ==
    [prog \in Programs |->
        [raw \in HeaderInputs |-> [cancel |-> is_cancel(prog, raw),
                                   parsed |-> parse_header(prog, strip(raw))]]]

NightsOutcome ==
    [prog \in Programs |-> [raw \in NightsInputs |-> read_positive_int(prog, raw, 1)]]

YesNoOutcome == [raw \in YesNoInputs |-> read_yes_no(raw)]

ItemOutcome ==
    [prog \in Programs |->
        [raw \in AllItemInputs |-> [blank |-> strip(raw) = <<>>,
                                 parsed |-> parse_item_line(prog, strip(raw))]]]

(***************************************************************************)
(* Initial state: AppState() as main() constructs it, control at the main  *)
(* menu prompt.  wiptask3.bak3.py keeps no id counter; next_customer_id is *)
(* 0 there and never changes.  header, nights, returned_on_time and lines  *)
(* are the locals of run_hire_flow; they hold their cleared values while   *)
(* no hire is being entered.                                               *)
(***************************************************************************)
SessionInit ==
    /\ program \in Programs
    /\ pc = "menu"
    /\ hire_records = <<>>
    /\ next_customer_id = (IF program = "wiptask3_bak3" THEN 0 ELSE 101)
    /\ header = NONE
    /\ nights = 0
    /\ returned_on_time = FALSE
    /\ lines = <<>>
    /\ out = <<>>
    /\ last_op = "start"
    /\ run = 1
    /\ fed = <<>>
    /\ ledgers = << <<>> >>
    /\ at = 0

Init ==
    /\ SessionInit
    /\ program = "hailmary"
    /\ calc_args = NONE
    /\ calc_result = NONE

DraftsInit ==
    /\ SessionInit
    /\ calc_args = NONE
    /\ calc_result = NONE

(***************************************************************************)
(* main(): one menu choice.  Option 2 of wiptask2.py prints that the       *)
(* report is not implemented.                                              *)
(***************************************************************************)
MainOn(raw) ==
    /\ pc = "menu"
    /\ LET choice == ChoiceOutcome[program][raw] IN
       IF choice = NONE
       THEN /\ out' = <<>>
            /\ last_op' = "rejected"
            /\ pc' = pc
       ELSE IF choice = UncaughtValueError
       THEN /\ out' = <<>>
            /\ last_op' = "crashed"
            /\ pc' = "crashed"
       ELSE IF choice.value = 1
       THEN /\ out' = <<>>
            /\ last_op' = "accepted"
            /\ pc' = "header"
       ELSE IF choice.value = 2 /\ HasReport(program)
       THEN /\ out' = report_of(program, hire_records)
            /\ last_op' = "report"
            /\ pc' = pc
       ELSE IF choice.value = 2
       THEN /\ out' = <<NO_REPORT_LINE>>
            /\ last_op' = "no_report"
            /\ pc' = pc
       ELSE /\ out' = <<>>
            /\ last_op' = "accepted"
            /\ pc' = "exit"
    /\ UNCHANGED <<program, hire_records, next_customer_id, header, nights,
                   returned_on_time, lines, calc_args, calc_result>>

Main ==
    /\ \E raw \in ChoiceInputs : MainOn(raw)
    /\ UNCHANGED replay_vars

(***************************************************************************)
(* read_customer_header(), as run_hire_flow uses it.                       *)
(***************************************************************************)
ReadCustomerHeaderOn(raw) ==
    /\ pc = "header"
    /\ LET parsed == HeaderOutcome[program][raw].parsed IN
       IF HeaderOutcome[program][raw].cancel
       THEN /\ out' = <<>>
            /\ last_op' = "cancelled"
            /\ pc' = "menu"
            /\ header' = NONE
       ELSE IF parsed.ok
       THEN /\ Len(hire_records) < MaxHires
            /\ out' = <<>>
            /\ last_op' = "accepted"
            /\ pc' = "nights"
            /\ header' = parsed.value
       ELSE IF LoopsOnBadHeader(program)
       THEN /\ out' = <<>>
            /\ last_op' = "rejected"
            /\ pc' = pc
            /\ header' = NONE
       ELSE /\ out' = <<>>
            /\ last_op' = "rejected"
            /\ pc' = "menu"
            /\ header' = NONE
    /\ UNCHANGED <<program, hire_records, next_customer_id, nights,
                   returned_on_time, lines, calc_args, calc_result>>

ReadCustomerHeader ==
    /\ \E raw \in HeaderInputs : ReadCustomerHeaderOn(raw)
    /\ UNCHANGED replay_vars

(***************************************************************************)
(* read_positive_int("Number of nights: ", min_value=1).                   *)
(***************************************************************************)
ReadNightsOn(raw) ==
    /\ pc = "nights"
    /\ LET r == NightsOutcome[program][raw] IN
       IF r.ok
       THEN /\ nights' = r.value
            /\ out' = <<>>
            /\ last_op' = "accepted"
            /\ pc' = "on_time"
       ELSE IF r = UncaughtValueError
       THEN /\ nights' = nights
            /\ out' = <<>>
            /\ last_op' = "crashed"
            /\ pc' = "crashed"
       ELSE /\ nights' = nights
            /\ out' = <<>>
            /\ last_op' = "rejected"
            /\ pc' = pc
    /\ UNCHANGED <<program, hire_records, next_customer_id, header,
                   returned_on_time, lines, calc_args, calc_result>>

ReadNights ==
    /\ \E raw \in NightsInputs : ReadNightsOn(raw)
    /\ UNCHANGED replay_vars

(***************************************************************************)
(* read_yes_no("Returned on time (y/n)? ").                                *)
(***************************************************************************)
ReadOnTimeOn(raw) ==
    /\ pc = "on_time"
    /\ LET r == YesNoOutcome[raw] IN
       IF r.ok
       THEN /\ returned_on_time' = r.value
            /\ out' = <<>>
            /\ last_op' = "accepted"
            /\ pc' = "items"
       ELSE /\ returned_on_time' = returned_on_time
            /\ out' = <<>>
            /\ last_op' = "rejected"
            /\ pc' = pc
    /\ UNCHANGED <<program, hire_records, next_customer_id, header, nights,
                   lines, calc_args, calc_result>>

ReadOnTime ==
    /\ \E raw \in YesNoInputs : ReadOnTimeOn(raw)
    /\ UNCHANGED replay_vars

(***************************************************************************)
(* read_item_lines(): one line of item entry.  A blank line after at least *)
(* one item returns to run_hire_flow, which builds the hire record,        *)
(* appends it to the ledger and advances the id counter before it prompts  *)
(* again: for another hire, or in wiptask2.py at the main menu.            *)
(***************************************************************************)
next_id_not_advanced(prog, id) == id

next_id_reissued(prog, id) == IF id > 101 THEN 101 ELSE id + 1

next_id_skips_one(prog, id) == IF prog = "wiptask3_bak3" THEN id ELSE id + 2

next_id_after_save(prog, id) == IF prog = "wiptask3_bak3" THEN id ELSE id + 1

no_lines_never(ls) == FALSE

no_lines_yet(ls) == ls = <<>>

prepend_hire(records, hire) == <<hire>> \o records

append_hire(records, hire) == Append(records, hire)

AsksAnother(prog) == prog # "wiptask2"

hire_id(prog, counter, hdr) ==
    IF prog = "wiptask3_bak3" THEN hdr.customer_id ELSE counter

ReadItemLineOn(raw) ==
    /\ pc = "items"
    /\ LET blank == ItemOutcome[program][raw].blank
           parsed == ItemOutcome[program][raw].parsed
           hire == make_hire(program, hire_id(program, next_customer_id, header),
                             header, nights, returned_on_time, lines)
       IN
       IF blank /\ no_lines_yet(lines)
       THEN /\ out' = <<>>
            /\ last_op' = "rejected"
            /\ UNCHANGED <<pc, hire_records, next_customer_id, header, nights,
                           returned_on_time, lines>>
       ELSE IF blank
       THEN /\ hire_records' = append_hire(hire_records, hire)
            /\ next_customer_id' = next_id_after_save(program, next_customer_id)
            /\ out' = saved_hire_lines(program, hire)
            /\ last_op' = "saved"
            /\ pc' = (IF AsksAnother(program) THEN "another" ELSE "menu")
            /\ header' = NONE
            /\ nights' = 0
            /\ returned_on_time' = FALSE
            /\ lines' = <<>>
       ELSE IF parsed.ok
       THEN /\ Len(lines) < MaxLines
            /\ lines' = Append(lines, make_line(program, parsed.value[1],
                                                parsed.value[2], nights,
                                                returned_on_time))
            /\ out' = <<>>
            /\ last_op' = "accepted"
            /\ UNCHANGED <<pc, hire_records, next_customer_id, header, nights,
                           returned_on_time>>
       ELSE IF parsed = UncaughtValueError
       THEN /\ out' = <<>>
            /\ last_op' = "crashed"
            /\ pc' = "crashed"
            /\ UNCHANGED <<hire_records, next_customer_id, header, nights,
                           returned_on_time, lines>>
       ELSE /\ out' = <<>>
            /\ last_op' = "rejected"
            /\ UNCHANGED <<pc, hire_records, next_customer_id, header, nights,
                           returned_on_time, lines>>
    /\ UNCHANGED <<program, calc_args, calc_result>>

ReadItemLine(inputs) ==
    /\ \E raw \in inputs : ReadItemLineOn(raw)
    /\ UNCHANGED replay_vars

(***************************************************************************)
(* read_yes_no("Add another hire (y/n)? ").                                *)
(***************************************************************************)
ReadAnotherOn(raw) ==
    /\ pc = "another"
    /\ LET r == YesNoOutcome[raw] IN
       IF ~r.ok
       THEN /\ out' = <<>>
            /\ last_op' = "rejected"
            /\ pc' = pc
       ELSE IF r.value
       THEN /\ out' = <<>>
            /\ last_op' = "accepted"
            /\ pc' = "header"
       ELSE /\ out' = <<>>
            /\ last_op' = "accepted"
            /\ pc' = "menu"
    /\ UNCHANGED <<program, hire_records, next_customer_id, header, nights,
                   returned_on_time, lines, calc_args, calc_result>>

ReadAnother ==
    /\ \E raw \in YesNoInputs : ReadAnotherOn(raw)
    /\ UNCHANGED replay_vars

Next ==
    \/ Main
    \/ ReadCustomerHeader
    \/ ReadNights
    \/ ReadOnTime
    \/ ReadItemLine(ItemInputs)
    \/ ReadAnother

Spec == Init /\ [][Next]_vars

(***************************************************************************)
(* The same session run by any of the five drafts, with a narrower offer   *)
(* of item lines.                                                          *)
(***************************************************************************)
DraftsNext ==
    \/ Main
    \/ ReadCustomerHeader
    \/ ReadNights
    \/ ReadOnTime
    \/ ReadItemLine(DraftItemInputs)
    \/ ReadAnother

DraftsSpec == DraftsInit /\ [][DraftsNext]_vars

(***************************************************************************)
(* The hailmary.py session run twice on the same console input.  The       *)
(* first run is offered a few lines at each prompt; every line it consumes *)
(* is noted, with the ledger it holds once the line is dealt with.  When   *)
(* it is over (it has left the main loop, or has consumed MaxFed lines)    *)
(* main() is called again: AppState() builds the state anew, the locals of *)
(* run_hire_flow do not exist yet, and the second run consumes the noted   *)
(* lines in their order.                                                   *)
(***************************************************************************)
ReplayChoiceInputs == {Str(t) : t \in {"1", "2", "3"}}

ReplayHeaderInputs ==
    {Str(t) : t \in {"cancel", "Jane Smith, 07900 111222, 12, le1 2ab, 1234"}}

ReplayNightsInputs == {Str(t) : t \in {" 3", "0"}}

ReplayYesNoInputs == {Str(t) : t \in {"y", "n"}}

ReplayItemInputs == {Str(t) : t \in {"", "dch, 1", "STV,1"}}

Offered(prompt) ==
    IF prompt = "menu" THEN ReplayChoiceInputs
    ELSE IF prompt = "header" THEN ReplayHeaderInputs
    ELSE IF prompt = "nights" THEN ReplayNightsInputs
    ELSE IF prompt = "items" THEN ReplayItemInputs
    ELSE IF prompt \in {"on_time", "another"} THEN ReplayYesNoInputs
    ELSE {}

SessionStepOn(raw) ==
    \/ MainOn(raw)
    \/ ReadCustomerHeaderOn(raw)
    \/ ReadNightsOn(raw)
    \/ ReadOnTimeOn(raw)
    \/ ReadItemLineOn(raw)
    \/ ReadAnotherOn(raw)

AppState_kept_between_runs(prog) ==
    [hire_records |-> hire_records, next_customer_id |-> next_customer_id]

AppState(prog) ==
    [hire_records |-> <<>>,
     next_customer_id |-> IF prog = "wiptask3_bak3" THEN 0 ELSE 101]

NextLines == IF run = 1 THEN Offered(pc) ELSE {fed[at + 1]}

Consume ==
    /\ IF run = 1 THEN Len(fed) < MaxFed ELSE at < Len(fed)
    /\ \E raw \in NextLines :
          /\ SessionStepOn(raw)
          /\ fed' = (IF run = 1 THEN Append(fed, raw) ELSE fed)
          /\ ledgers' = (IF run = 1 THEN Append(ledgers, hire_records') ELSE ledgers)
    /\ at' = (IF run = 1 THEN at ELSE at + 1)
    /\ run' = run

StartAgain ==
    /\ run = 1
    /\ (pc = "exit" \/ Len(fed) = MaxFed)
    /\ run' = 2
    /\ pc' = "menu"
    /\ hire_records' = AppState(program).hire_records
    /\ next_customer_id' = AppState(program).next_customer_id
    /\ header' = NONE
    /\ nights' = 0
    /\ returned_on_time' = FALSE
    /\ lines' = <<>>
    /\ out' = <<>>
    /\ last_op' = "start"
    /\ UNCHANGED <<program, calc_args, calc_result, fed, ledgers, at>>

ReplayNext ==
    \/ Consume
    \/ StartAgain

ReplaySpec == Init /\ [][ReplayNext]_vars

(***************************************************************************)
(* The hailmary.py session with a user who answers: every input loop       *)
(* (header, nights, on time, item lines, another hire) eventually gets an  *)
(* input that ends or advances it, and a user who keeps coming back to the *)
(* main menu eventually chooses option 3 there.  The item prompt is        *)
(* offered a blank line, one valid line and one unknown code.  A step      *)
(* that adds a line or saves the hire is possible whenever control is at   *)
(* that prompt (an empty list can take a line, a non-empty one can be      *)
(* saved), so weak fairness of that step is written out with pc = "items"  *)
(* as its enabling condition.                                              *)
(***************************************************************************)
LiveItemInputs ==
    {Str(t) : t \in
         {"", "dch, 1", "XXX, 1"}}

LiveNext ==
    \/ Main
    \/ ReadCustomerHeader
    \/ ReadNights
    \/ ReadOnTime
    \/ ReadItemLine(LiveItemInputs)
    \/ ReadAnother

ItemLinesEventuallyValid ==
    \/ []<>(pc # "items")
    \/ []<><<ReadItemLine(LiveItemInputs) /\ lines' # lines>>_vars

LiveSpec ==
    /\ Init
    /\ [][LiveNext]_vars
    /\ SF_vars(Main /\ pc' = "exit")
    /\ WF_vars(ReadCustomerHeader /\ pc' # pc)
    /\ WF_vars(ReadNights /\ pc' # pc)
    /\ WF_vars(ReadOnTime /\ pc' # pc)
    /\ ItemLinesEventuallyValid
    /\ WF_vars(ReadAnother /\ pc' # pc)

(***************************************************************************)
(* The pricing engine on its own: the calc_line_costs of a draft applied   *)
(* to arguments drawn from the bounded ranges.                             *)
(***************************************************************************)
PricingInit ==
    /\ SessionInit
    /\ calc_args \in [daily_p : 0..MaxDaily, qty : 1..MaxQty,
                      nights : 1..MaxNights, returned_on_time : BOOLEAN]
    /\ calc_result = NONE

CalcLineCosts ==
    /\ calc_args # NONE
    /\ calc_result = NONE
    /\ calc_result' = calc_line_costs_of(program, calc_args.daily_p, calc_args.qty,
                                         calc_args.nights, calc_args.returned_on_time)
    /\ UNCHANGED <<calc_args, program, pc, hire_records, next_customer_id, header,
                   nights, returned_on_time, lines, out, last_op>>
    /\ UNCHANGED replay_vars

PricingNext == CalcLineCosts

PricingSpec == PricingInit /\ [][PricingNext]_vars

(***************************************************************************)
(* The pricing engine called directly, without the readers in front of it: *)
(* quantity and nights also range over non-positive values.                *)
(***************************************************************************)
UncheckedQuantities == (0 - 1)..MaxQty

UncheckedNights == (0 - 1)..MaxNights

EngineInit ==
    /\ SessionInit
    /\ calc_args \in [daily_p : 0..MaxDaily, qty : UncheckedQuantities,
                      nights : UncheckedNights, returned_on_time : BOOLEAN]
    /\ calc_result = NONE

EngineSpec == EngineInit /\ [][PricingNext]_vars

(***************************************************************************)
(* The helpers on their own: money() applied to an amount in pence,        *)
(* find_item() to a code as typed, _parse_customer_header() to a raw       *)
(* header line, and the _wrap_equipment() of wiptask3.bak3.py to a text    *)
(* and a column width.                                                     *)
(***************************************************************************)
MoneyExamples == {1500, 2250, 3750, 100000, 1234567}

MoneyInputs == 0..MaxPence \cup MoneyExamples

CodeInputs ==
    {Str(t) : t \in
         {"DCH", "dch", "bcH", "Bch", "BAS", "ba1", "BBT", "tnt", "SLP", "r3t", "rbr",
          "REB", "Stv", "sTV", "", "XXX", "xxx", " dch", "dch ", "DC", "DCHH", "D", "1",
          "ÿ", "dchÿ"}}

HeaderTexts ==
    HeaderInputs \cup {Str(t) : t \in
         {"Jane Smith, 07900111222, , , 1234",
          " Al Roe , (0790) 011-1222 , 1a , le1 2ab , 12-34 ",
          "Jo, 123456, 1, A1 1AA, 1234",
          "Jo, 1234567, 1, A1 1AA, 1234",
          "Jo, 1234567, 1, A1 1AA, 123",
          "Jo, 1234567, 1, A1 1AA, abcd",
          "Jo, phone, 1, A1 1AA, 1234",
          " , 1234567, 1, A1 1AA, 1234",
          "Jo\t, 1234567, 1, é1 1aß, 1234",
          "Jo, ²²²²²²², 1, A1 1AA, 1234",
          "Jo, 1234567, 1, A1 1AA, ¹²³4",
          "Jo, 1234567, 1, ÿ1 1aa, 1234",
          ",,,,",
          "Jo",
          "a, 1234567, c, d, 1234, f"}}

WrapTexts ==
    {Str(t) : t \in
         {"", " ", ",", "a", "ab, cd", "ab,cd,ef", "a, , b", "abcdefgh", "abc, defghij, k",
          "ab cd, ef", "a,a,a,a"}}
    \cup {items_summary_of(<<[name |-> Str("Day chairs"), qty |-> 1],
                             [name |-> Str("Bait Boat"), qty |-> 1]>>),
          items_summary_of(<<[name |-> Str("Rods (3lb TC)"), qty |-> 2],
                             [name |-> Str("Day chairs"), qty |-> 1]>>)}

WrapWidths == 1..MaxWidth \cup {EQUIP_W}

UtilInit ==
    /\ SessionInit
    /\ calc_result = NONE
    /\ \/ /\ program = "hailmary"
          /\ calc_args \in [fn : {"money"}, pence : MoneyInputs]
       \/ /\ program = "hailmary"
          /\ calc_args \in [fn : {"find_item"}, code : CodeInputs]
       \/ /\ program = "hailmary"
          /\ calc_args \in [fn : {"_parse_customer_header"}, raw : HeaderTexts]
       \/ /\ program = "wiptask3_bak3"
          /\ calc_args \in [fn : {"_wrap_equipment"}, text : WrapTexts,
                            width : WrapWidths]

Money ==
    /\ last_op = "start"
    /\ calc_args.fn = "money"
    /\ calc_result' = money(calc_args.pence)
    /\ last_op' = "returned"
    /\ UNCHANGED <<calc_args, program, pc, hire_records, next_customer_id, header,
                   nights, returned_on_time, lines, out>>
    /\ UNCHANGED replay_vars

FindItem ==
    /\ last_op = "start"
    /\ calc_args.fn = "find_item"
    /\ calc_result' = find_item(calc_args.code)
    /\ last_op' = "returned"
    /\ UNCHANGED <<calc_args, program, pc, hire_records, next_customer_id, header,
                   nights, returned_on_time, lines, out>>
    /\ UNCHANGED replay_vars

ParseCustomerHeader ==
    /\ last_op = "start"
    /\ calc_args.fn = "_parse_customer_header"
    /\ calc_result' = _parse_customer_header(calc_args.raw)
    /\ last_op' = "returned"
    /\ UNCHANGED <<calc_args, program, pc, hire_records, next_customer_id, header,
                   nights, returned_on_time, lines, out>>
    /\ UNCHANGED replay_vars

WrapEquipment ==
    /\ last_op = "start"
    /\ calc_args.fn = "_wrap_equipment"
    /\ calc_result' = _wrap_equipment(calc_args.text, calc_args.width)
    /\ last_op' = "returned"
    /\ UNCHANGED <<calc_args, program, pc, hire_records, next_customer_id, header,
                   nights, returned_on_time, lines, out>>
    /\ UNCHANGED replay_vars

UtilNext ==
    \/ Money
    \/ FindItem
    \/ ParseCustomerHeader
    \/ WrapEquipment

UtilSpec == UtilInit /\ [][UtilNext]_vars

(***************************************************************************)
(* Properties of the pricing engine (PricingSpec).                         *)
(***************************************************************************)
half_night(daily_p, qty) == (daily_p * qty) \div 2

\* C1: for daily_price >= 0, quantity >= 1, nights >= 1 and either on-time
\* flag, calc_line_costs returns first_night_cost = daily_price * quantity and
\* additional_nights_cost = floor(daily_price * quantity / 2) * (nights - 1),
\* the floor being taken once per half-night before the multiplication.
C1_FirstAndAdditionalNights ==
    calc_result # NONE =>
        /\ calc_result[1] = calc_args.daily_p * calc_args.qty
        /\ calc_result[2] = half_night(calc_args.daily_p, calc_args.qty)
                                * (calc_args.nights - 1)

C1_Witness ==
    /\ calc_result # NONE
    /\ calc_args.daily_p * calc_args.qty = 3
    /\ calc_args.nights = 3
    /\ calc_result[1] = 3
    /\ calc_result[2] = 2

\* C2: the late-return surcharge returned by calc_line_costs is exactly
\* floor(daily_price * quantity / 2) when the hire was not returned on time and
\* exactly 0 when it was, and it is the same for every number of nights >= 1.
C2_LateSurcharge ==
    calc_result # NONE =>
        /\ calc_result[3] = (IF calc_args.returned_on_time THEN 0
                             ELSE half_night(calc_args.daily_p, calc_args.qty))
        /\ \A n \in 1..MaxNights :
              calc_line_costs_of(program, calc_args.daily_p, calc_args.qty, n,
                                 calc_args.returned_on_time)[3] = calc_result[3]

C2_Witness ==
    /\ calc_result # NONE
    /\ ~calc_args.returned_on_time
    /\ calc_args.daily_p * calc_args.qty = 5
    /\ calc_args.nights = 3
    /\ calc_result[3] = 2

(***************************************************************************)
(* Reading a printed table back: the cells of a row are the pieces between *)
(* its column separators.                                                  *)
(***************************************************************************)
row_cells(row) ==
    LET ps == split(row, Str("|")) IN [i \in 1..Len(ps) |-> strip(ps[i])]

padded_cell(row, k) ==
    LET ps == split(row, Str("|"))
        from == IF k = 1 THEN 1 ELSE 2
        to == IF k = Len(ps) THEN Len(ps[k]) ELSE Len(ps[k]) - 1
    IN SubSeq(ps[k], from, to)

IsSeparatorRow(row) ==
    row # <<>> /\ \A i \in 1..Len(row) : CharAt(row, i) \in {Str("-"), Str("+")}

IsHeaderRow(row) ==
    row_cells(row) = << Str("Customer ID"), Str("Equipment"), Str("Number of nights"), Str("Total Cost"),
                        Str("Returned on time (y/n)"), Str("Extra charge for delayed return") >>

ends_with(s, suffix) ==
    Len(s) >= Len(suffix) /\ SubSeq(s, Len(s) - Len(suffix) + 1, Len(s)) = suffix

ReportShown == last_op = "report"

(***************************************************************************)
(* Properties of the hailmary.py session (Spec).                           *)
(***************************************************************************)
\* C3: in hailmary.py, after any sequence of menu choices (completed hires,
\* hires cancelled at the header prompt, reports, invalid choices) the k-th
\* record of hire_records has customer_id 100 + k: ids 101, 102, ... in ledger
\* order, no gaps, no repeats.
C3_SequentialIds ==
    \A k \in 1..Len(hire_records) : hire_records[k].customer_id = 100 + k

C3_Witness ==
    /\ Len(hire_records) = 2
    /\ hire_records[1].customer_id = 101
    /\ hire_records[2].customer_id = 102
    /\ pc = "menu"

\* C4: every hire record in the ledger has total_p equal to the sum of
\* line_total_p over its lines and extra_delay_p equal to the sum of
\* extra_delay_p over its lines.
C4_RecordTotals ==
    \A k \in 1..Len(hire_records) :
        LET h == hire_records[k] IN
        /\ h.total_p = sum([i \in 1..Len(h.lines) |-> h.lines[i].line_total_p])
        /\ h.extra_delay_p = sum([i \in 1..Len(h.lines) |-> h.lines[i].extra_delay_p])

C4_Witness ==
    \E k \in 1..Len(hire_records) :
        /\ Len(hire_records[k].lines) = 2
        /\ hire_records[k].lines[1].code # hire_records[k].lines[2].code
        /\ hire_records[k].extra_delay_p = 1250
        /\ hire_records[k].total_p = 6250

catalog_price ==
    [code \in {CATALOG[i].code : i \in 1..Len(CATALOG)} |-> find_item(code).daily_p]

\* C5: every line item stored in a ledger record has line_total equal to
\* first_night_cost + additional_nights_cost + late_return_surcharge, the
\* three being what calc_line_costs returns for the line's catalogue price,
\* its quantity and the hire's nights and on-time flag.
C5_LineTotals ==
    \A k \in 1..Len(hire_records) :
        LET h == hire_records[k] IN
        \A i \in 1..Len(h.lines) :
            LET l == h.lines[i] IN
            /\ l.line_total_p = l.first_night_p + l.additional_nights_p + l.extra_delay_p
            /\ <<l.first_night_p, l.additional_nights_p, l.extra_delay_p>>
                   = calc_line_costs(catalog_price[l.code], l.qty, h.nights,
                                     h.returned_on_time)

C5_Witness ==
    \E k \in 1..Len(hire_records) :
        /\ ~hire_records[k].returned_on_time
        /\ hire_records[k].nights = 3
        /\ hire_records[k].lines[1].code = Str("DCH")
        /\ hire_records[k].lines[1].first_night_p = 1500
        /\ hire_records[k].lines[1].additional_nights_p = 1500
        /\ hire_records[k].lines[1].extra_delay_p = 750
        /\ hire_records[k].lines[1].line_total_p = 3750

\* C8: for a non-empty ledger the report of hailmary.py is one header row, one
\* separator row, then one row per hire record in ledger order; a record's
\* row shows its customer_id, equipment_summary and nights, and the on-time
\* flag as 'y' exactly when the record was returned on time, 'n' otherwise.
C8_ReportRows ==
    (ReportShown /\ hire_records # <<>>) =>
        /\ Len(out) = Len(hire_records) + 2
        /\ IsHeaderRow(out[1])
        /\ IsSeparatorRow(out[2])
        /\ \A i \in 1..Len(hire_records) :
              LET c == row_cells(out[i + 2])
                  h == hire_records[i]
              IN /\ Len(c) = 6
                 /\ c[1] = str(h.customer_id)
                 /\ c[2] = h.items_summary
                 /\ c[3] = str(h.nights)
                 /\ c[5] = (IF h.returned_on_time THEN Str("y") ELSE Str("n"))

C8_Witness ==
    /\ ReportShown
    /\ Len(hire_records) = 2
    /\ hire_records[1].returned_on_time
    /\ ~hire_records[2].returned_on_time
    /\ Len(hire_records[2].items_summary) > EQUIP_W
    /\ row_cells(out[3])[5] = Str("y")
    /\ row_cells(out[4])[5] = Str("n")

\* C9: every record row of the report of hailmary.py shows
\* total_cost and the late-return surcharge as currency, pound sign, pounds,
\* point, two-digit pence (3750 and 750 shown as 37.50 and 7.50 pounds).
C9_RowsShowCurrency ==
    (ReportShown /\ hire_records # <<>>) =>
        \A i \in 1..Len(hire_records) :
            LET c == row_cells(out[i + 2])
                h == hire_records[i]
            IN /\ c[4] = money(h.total_p)
               /\ c[6] = money(h.extra_delay_p)

(***************************************************************************)
(* Properties of the reports of the drafts (DraftsSpec).  The table with   *)
(* the 65-wide equipment column that wraps is the draft kept in            *)
(* wiptask3.bak3.py; wiptask3.py prints the list-form report.              *)
(***************************************************************************)
grand_total_of(records) == sum([i \in 1..Len(records) |-> records[i].total_p])

\* C6: for a non-empty ledger the report of hailmary.py and of the wiptask3
\* drafts finishes with a totals line whose amount is the sum of total_cost
\* over all records of the ledger (the list-form draft prints the grand
\* total and then the late-charge total, so the totals line is looked for in
\* the last two printed lines).
C6_TotalsLine ==
    (ReportShown /\ hire_records # <<>>
        /\ program \in {"hailmary", "wiptask3", "wiptask3_bak3"}) =>
        \E k \in {Len(out) - 1, Len(out)} :
            ends_with(strip(out[k]), money(grand_total_of(hire_records)))

\* C7: when the ledger is empty, run_earnings_report of each of the four
\* drafts that have one prints only the 'no hires recorded' message: no header row, no
\* separator, no record row, no totals line, and it does not fail.
C7_EmptyLedgerReport ==
    (ReportShown /\ hire_records = <<>>) => out = <<Str("\nNo hires recorded yet.")>>

C7_Witness ==
    /\ ReportShown
    /\ hire_records = <<>>
    /\ program = "hailmary"
    /\ Len(out) = 1

\* C10: in each table-form report (hailmary.py, equipment column 65 wide;
\* wip.py, 45 wide; the wrapping draft, 65 wide) the equipment cell of no
\* printed record row is longer than the column: a longer equipment_summary
\* is truncated with an ellipsis or wrapped onto continuation rows.
equip_width(prog) == IF prog = "wip" THEN WIP_EQUIP_W ELSE EQUIP_W

equip_column(prog) == IF prog = "wip" THEN 3 ELSE 2

record_rows(prog, printed) ==
    IF prog = "wip" THEN SubSeq(printed, 6, Len(printed) - 2)
    ELSE SubSeq(printed, 3, Len(printed))

C10_EquipmentCellFits ==
    (ReportShown /\ hire_records # <<>> /\ program \in {"hailmary", "wip", "wiptask3_bak3"}) =>
        \A i \in 1..Len(record_rows(program, out)) :
            Len(padded_cell(record_rows(program, out)[i], equip_column(program)))
                <= equip_width(program)

(***************************************************************************)
(* Properties of the helpers (UtilSpec).                                   *)
(***************************************************************************)
MoneyReturned == last_op = "returned" /\ calc_args.fn = "money"

money_major_text(s) ==
    LET parts == split(s, Str(".")) IN SubSeq(parts[1], 2, Len(parts[1]))

money_minor_text(s) == split(s, Str("."))[2]

\* C11: for every pence >= 0, money(pence) of hailmary.py is the pound sign,
\* then major in plain decimal, then a point, then minor written with
\* exactly two digits, where major = pence div 100 and minor = pence mod 100,
\* so 100 * major + minor = pence and 0 <= minor <= 99 (1500 gives 15.00,
\* 3750 gives 37.50 and 2250 gives 22.50 pounds).
C11_MoneyFormat ==
    MoneyReturned =>
        LET parts == split(calc_result, Str("."))
            major_s == money_major_text(calc_result)
            minor_s == money_minor_text(calc_result)
            major == digits_value(major_s, 0)
            minor == digits_value(minor_s, 0)
        IN /\ Len(parts) = 2
           /\ CharAt(parts[1], 1) = Str("£")
           /\ isdigit(major_s)
           /\ major_s = str(major)
           /\ Len(minor_s) = 2
           /\ isdigit(minor_s)
           /\ major = calc_args.pence \div 100
           /\ minor = calc_args.pence % 100
           /\ 100 * major + minor = calc_args.pence
           /\ minor \in 0..99
           /\ (calc_args.pence = 1500 => calc_result = Str("£15.00"))
           /\ (calc_args.pence = 3750 => calc_result = Str("£37.50"))
           /\ (calc_args.pence = 2250 => calc_result = Str("£22.50"))

C11_Witness ==
    /\ MoneyReturned
    /\ calc_args.pence = 105
    /\ calc_result = Str("£1.05")

FindItemReturned == last_op = "returned" /\ calc_args.fn = "find_item"

\* C12: find_item(code) is case-insensitive and total: for every string it
\* returns the catalogue entry whose code equals the input up to letter case
\* ('DCH', 'dch' and 'bcH' resolve to their entries) and the absent result
\* None for every other string, the empty string and 'XXX' included.
C12_FindItemCaseInsensitive ==
    FindItemReturned =>
        LET matches == {i \in 1..Len(CATALOG) :
                           lower(CATALOG[i].code) = lower(calc_args.code)}
        IN /\ (matches = {} => calc_result = NONE)
           /\ (matches # {} => /\ calc_result # NONE
                               /\ \E i \in matches : calc_result = CATALOG[i])
           /\ (calc_args.code \in {Str("DCH"), Str("dch")} => calc_result = CATALOG[1])
           /\ (calc_args.code = Str("bcH") => calc_result = CATALOG[2])
           /\ (calc_args.code \in {<<>>, Str("XXX")} => calc_result = NONE)

C12_Witness ==
    /\ FindItemReturned
    /\ calc_args.code = Str("bcH")
    /\ calc_result # NONE
    /\ calc_result.code = Str("BCH")
    /\ calc_result.daily_p = 2500

(***************************************************************************)
(* Property of the pricing engine called directly (EngineSpec).            *)
(***************************************************************************)
is_cost_triple(r) == Len(r) = 3 /\ \A i \in 1..3 : r[i] \in Int

\* C16: calc_line_costs signals a malformed-input failure, and returns no
\* cost triple, whenever it is called with quantity <= 0 or nights <= 0.
C16_MalformedInputSignalled ==
    (calc_result # NONE /\ (calc_args.qty <= 0 \/ calc_args.nights <= 0)) =>
        ~is_cost_triple(calc_result)

(***************************************************************************)
(* Further properties of the hailmary.py session (Spec).                   *)
(***************************************************************************)
in_catalog(l) ==
    \E i \in 1..Len(CATALOG) :
        /\ CATALOG[i].code = l.code
        /\ CATALOG[i].name = l.name
        /\ CATALOG[i].daily_p = l.daily_p

\* C13: in every reachable state, every line item of every ledger record
\* (and of the hire being entered) has a code that exists in the catalogue,
\* and the line's name and daily price are those of the catalogue entry with
\* that code.
C13_LinesFromCatalog ==
    /\ \A k \in 1..Len(hire_records) :
          \A i \in 1..Len(hire_records[k].lines) : in_catalog(hire_records[k].lines[i])
    /\ \A i \in 1..Len(lines) : in_catalog(lines[i])

C13_Witness ==
    \E k \in 1..Len(hire_records) :
        /\ Len(hire_records[k].lines) = 2
        /\ hire_records[k].lines[1].code = Str("DCH")
        /\ hire_records[k].lines[1].name = Str("Day chairs")
        /\ hire_records[k].lines[1].daily_p = 1500
        /\ hire_records[k].lines[2].code = Str("STV")
        /\ hire_records[k].lines[2].name = Str("Camping Gas stove (Double burner)")
        /\ hire_records[k].lines[2].daily_p = 1000

\* C14: the ledger is append-only: in every step of a session of hailmary.py
\* hire_records either stays identical or grows by exactly one record at its
\* end; no record already in it is removed, reordered or changed.
C14_AppendOnly ==
    [][ \/ hire_records' = hire_records
        \/ /\ Len(hire_records') = Len(hire_records) + 1
           /\ SubSeq(hire_records', 1, Len(hire_records)) = hire_records ]_vars

C14_Witness ==
    /\ Len(hire_records) = 2
    /\ hire_records[1].customer_id = 101
    /\ hire_records[1].returned_on_time
    /\ hire_records[2].customer_id = 102
    /\ ~hire_records[2].returned_on_time
    /\ last_op = "report"

\* C15: a hire with no line item is never built: a blank line entered while
\* no item has been entered is rejected and item entry continues, so every
\* record of the ledger has at least one line item.
C15_NoEmptyHire ==
    /\ \A k \in 1..Len(hire_records) : Len(hire_records[k].lines) >= 1
    /\ (last_op = "saved" => Len(hire_records[Len(hire_records)].lines) >= 1)

C15_Witness ==
    /\ pc = "items"
    /\ lines = <<>>
    /\ last_op = "rejected"
    /\ Len(hire_records) = 1
    /\ Len(hire_records[1].lines) = 1

\* C17: in hailmary.py, whatever is typed, every call of calc_line_costs made
\* by the hire flow has nights >= 1 and quantity >= 1 (the nights in force
\* during item entry and the quantity of each line priced), and every record
\* of the ledger has nights >= 1 and quantity >= 1 on each of its lines.
C17_ValidatedNightsAndQuantity ==
    /\ \A k \in 1..Len(hire_records) :
          /\ hire_records[k].nights >= 1
          /\ \A i \in 1..Len(hire_records[k].lines) : hire_records[k].lines[i].qty >= 1
    /\ (pc = "items" => nights >= 1)
    /\ \A i \in 1..Len(lines) : lines[i].qty >= 1

C17_Witness ==
    /\ pc = "items"
    /\ last_op = "rejected"
    /\ nights = 3
    /\ Len(lines) = 1
    /\ lines[1].qty = 1

\* C18: the equipment summary of every hire record is the line items'
\* '{name} - {quantity}' texts joined with ', ' in the order the lines were
\* entered, one entry per entered line (a code entered twice appears twice).
C18_EquipmentSummary ==
    \A k \in 1..Len(hire_records) :
        LET h == hire_records[k]
            parts == split(h.items_summary, Str(","))
        IN /\ Len(parts) = Len(h.lines)
           /\ \A i \in 1..Len(h.lines) :
                 parts[i] = (IF i = 1 THEN <<>> ELSE Str(" "))
                                \o h.lines[i].name \o Str(" ") \o EN_DASH \o Str(" ")
                                \o str(h.lines[i].qty)

C18_Witness ==
    \E k \in 1..Len(hire_records) :
        /\ Len(hire_records[k].lines) = 2
        /\ hire_records[k].lines[1].code = Str("STV")
        /\ hire_records[k].lines[2].code = Str("STV")
        /\ Len(split(hire_records[k].items_summary, Str(","))) = 2

same_inputs(g, h) ==
    /\ g.nights = h.nights
    /\ g.returned_on_time = h.returned_on_time
    /\ Len(g.lines) = Len(h.lines)
    /\ \A i \in 1..Len(g.lines) :
          g.lines[i].code = h.lines[i].code /\ g.lines[i].qty = h.lines[i].qty

records_of(ledger) == {ledger[k] : k \in 1..Len(ledger)}

built_in_either_run == records_of(hire_records) \cup records_of(ledgers[Len(ledgers)])

\* C19: pricing and record building are deterministic with no hidden state:
\* a second session fed the input lines of a first one holds, at its start
\* and after every line, the ledger the first session held at the same
\* point; and two hires built from the same validated inputs (nights,
\* on-time flag, code and quantity pairs), at whatever point of either
\* session and whatever was built before them, carry equal lines, totals,
\* surcharges and summaries.
C19_Deterministic ==
    /\ run = 2 => hire_records = ledgers[at + 1]
    /\ \A g \in built_in_either_run : \A h \in built_in_either_run :
          same_inputs(g, h) =>
              /\ g.lines = h.lines
              /\ g.total_p = h.total_p
              /\ g.extra_delay_p = h.extra_delay_p
              /\ g.items_summary = h.items_summary

C19_Witness ==
    /\ run = 2
    /\ at = Len(fed)
    /\ Len(hire_records) = 2
    /\ hire_records = ledgers[at + 1]
    /\ same_inputs(hire_records[1], hire_records[2])
    /\ hire_records[1].customer_id # hire_records[2].customer_id
    /\ ~hire_records[1].returned_on_time
    /\ hire_records[1].total_p = hire_records[2].total_p
    /\ hire_records[1].total_p > 0

\* C20: in hailmary.py a hire abandoned at the customer-header prompt (blank
\* input or 'cancel') leaves hire_records and next_customer_id unchanged, and
\* next_customer_id never decreases in any step, so an id once issued is
\* never issued again.
C20_CancelKeepsLedgerAndCounter ==
    [][ /\ next_customer_id' >= next_customer_id
        /\ ((pc = "header" /\ last_op' = "cancelled") =>
                /\ hire_records' = hire_records
                /\ next_customer_id' = next_customer_id
                /\ pc' = "menu")
        /\ \A k \in 1..Len(hire_records') :
              hire_records'[k].customer_id < next_customer_id' ]_vars

C20_Witness ==
    /\ last_op = "cancelled"
    /\ pc = "menu"
    /\ Len(hire_records) = 1
    /\ hire_records[1].customer_id = 101
    /\ next_customer_id = 102

BadItemLines ==
    {Str(t) : t \in
         {"XXX, 1", "DCH", "DCH, 0", "DCH, -1", "DCH, +1x", "DCH, _1", "DCH, ²", "ÿ, 1",
          "STV, one"}}

\* C21: during item entry in hailmary.py an item line with an unknown code,
\* or with a malformed or non-positive quantity, is a correctable error: the
\* line is refused, and the step that refuses a line adds no line, leaves
\* the lines already entered, the header, the nights, the flag, the ledger
\* and the id counter unchanged, and stays at the item prompt.
C21_BadItemLineCorrectable ==
    [][ /\ \A raw \in BadItemLines : ~ItemOutcome["hailmary"][raw].parsed.ok
        /\ ((pc = "items" /\ last_op' = "rejected") =>
               /\ pc' = "items"
               /\ lines' = lines
               /\ hire_records' = hire_records
               /\ next_customer_id' = next_customer_id
               /\ header' = header
               /\ nights' = nights
               /\ returned_on_time' = returned_on_time) ]_vars

C21_Witness ==
    /\ pc = "items"
    /\ last_op = "rejected"
    /\ Len(lines) = 1
    /\ lines[1].code = Str("STV")
    /\ Len(hire_records) = 1
    /\ next_customer_id = 102

(***************************************************************************)
(* Further properties of the helpers (UtilSpec).                           *)
(***************************************************************************)
HeaderParsed == last_op = "returned" /\ calc_args.fn = "_parse_customer_header"

digit_count(s) == Cardinality({k \in 1..Len(s) : s[k] \in DecimalChars})

well_formed_header(raw) ==
    LET fields == split(raw, Str(",")) IN
    /\ Len(fields) = 5
    /\ strip(fields[1]) # <<>>
    /\ digit_count(fields[2]) >= 7
    /\ digit_count(fields[5]) = 4

\* C22: every customer header that _parse_customer_header of hailmary.py
\* returns has a non-empty name, a phone made of the digits 0-9 only and at
\* least 7 of them, the house number and the postcode that were typed
\* (trimmed, the postcode in upper case) and a card suffix of exactly 4
\* digits 0-9; every raw input that is not of that form raises ValueError
\* and yields no header.
C22_ParsedHeaderValid ==
    HeaderParsed =>
        /\ calc_result.ok = well_formed_header(calc_args.raw)
        /\ (calc_result.ok =>
               LET h == calc_result.value
                   fields == split(calc_args.raw, Str(","))
               IN /\ DOMAIN h = {"customer_name", "phone", "house_no", "postcode",
                                 "card_last4"}
                  /\ h.customer_name # <<>>
                  /\ h.customer_name = strip(fields[1])
                  /\ Len(h.phone) >= 7
                  /\ digit_count(h.phone) = Len(h.phone)
                  /\ h.house_no = strip(fields[3])
                  /\ h.postcode = upper(strip(fields[4]))
                  /\ Len(h.card_last4) = 4
                  /\ digit_count(h.card_last4) = 4)

C22_Witness ==
    /\ HeaderParsed
    /\ calc_args.raw = Str(" Al Roe , (0790) 011-1222 , 1a , le1 2ab , 12-34 ")
    /\ calc_result.ok
    /\ calc_result.value.customer_name = Str("Al Roe")
    /\ calc_result.value.phone = Str("07900111222")
    /\ calc_result.value.postcode = Str("LE1 2AB")
    /\ calc_result.value.card_last4 = Str("1234")

Wrapped == last_op = "returned" /\ calc_args.fn = "_wrap_equipment"

RECURSIVE squeeze(_, _)
squeeze(s, i) ==
    IF i > Len(s) THEN <<>>
    ELSE (IF CharAt(s, i) \in {Str(" "), Str(",")} THEN <<>> ELSE CharAt(s, i)) \o squeeze(s, i + 1)

contains(s, t) ==
    \E k \in 1..(Len(s) - Len(t) + 1) : SubSeq(s, k, k + Len(t) - 1) = t

wrap_items(text) ==
    LET ps == split(text, Str(","))
    IN SelectSeq([i \in 1..Len(ps) |-> strip(ps[i])], LAMBDA p : p # <<>>)

\* C29: for every text and every width >= 1, _wrap_equipment(text, width)
\* returns at least one line (also for an empty text), every returned line
\* has exactly width characters, the items of the text appear in the lines
\* in their original order with nothing dropped or repeated (the lines read
\* in order spell the text, spaces and commas aside), and an item no longer
\* than width lies whole within one line.
C29_WrapEquipment ==
    Wrapped =>
        /\ Len(calc_result) >= 1
        /\ \A i \in 1..Len(calc_result) : Len(calc_result[i]) = calc_args.width
        /\ squeeze(join(<<>>, calc_result), 1) = squeeze(calc_args.text, 1)
        /\ \A j \in 1..Len(wrap_items(calc_args.text)) :
              Len(wrap_items(calc_args.text)[j]) <= calc_args.width =>
                  \E i \in 1..Len(calc_result) :
                      contains(calc_result[i], wrap_items(calc_args.text)[j])

C29_Witness ==
    /\ Wrapped
    /\ calc_args.text = Str("abc, defghij, k")
    /\ calc_args.width = 6
    /\ calc_result = <<Str("abc   "), Str("defghi"), Str("j     "), Str("k     ")>>

(***************************************************************************)
(* Further properties of the drafts (DraftsSpec).  The list-form report    *)
(* with a grand total and a late-charge total is the one of wiptask3.py;   *)
(* the draft that reads the customer id from the header is                 *)
(* wiptask3.bak3.py.                                                       *)
(***************************************************************************)
printed_pence(line) ==
    LET ps == split(line, Str(":")) IN digits_value(digits_of(ps[Len(ps)]), 0)

late_total_of(records) == sum([i \in 1..Len(records) |-> records[i].extra_delay_p])

\* C23: for a non-empty ledger the grand total printed by the report of
\* wip.py and of the list-form draft equals the sum of total_p over all
\* ledger records, each counted once; in the list-form draft the printed
\* late-return total equals the sum of extra_delay_p over all records and
\* never exceeds the grand total.
C23_PrintedTotals ==
    (ReportShown /\ hire_records # <<>>) =>
        /\ (program = "wip" =>
               /\ contains(out[Len(out)], Str("TOTAL EARNINGS"))
               /\ printed_pence(out[Len(out)]) = grand_total_of(hire_records))
        /\ (program = "wiptask3" =>
               /\ contains(out[Len(out) - 1], Str("Grand total earnings"))
               /\ printed_pence(out[Len(out) - 1]) = grand_total_of(hire_records)
               /\ printed_pence(out[Len(out)]) = late_total_of(hire_records)
               /\ printed_pence(out[Len(out)]) <= printed_pence(out[Len(out) - 1]))

C23_Witness ==
    /\ ReportShown
    /\ program = "wiptask3"
    /\ Len(hire_records) = 2
    /\ hire_records[1].total_p > 0
    /\ hire_records[2].extra_delay_p > 0
    /\ printed_pence(out[Len(out) - 1]) = hire_records[1].total_p + hire_records[2].total_p
    /\ printed_pence(out[Len(out)]) > 0

\* C24: in the draft that reads the customer id from the entered header,
\* the ledger's insertion order is customer-id order: along hire_records the
\* customer ids are strictly increasing, with no duplicate.
C24_IdsIncreasing ==
    program = "wiptask3_bak3" =>
        \A k \in 1..(Len(hire_records) - 1) :
            hire_records[k].customer_id < hire_records[k + 1].customer_id

(***************************************************************************)
(* Further properties of the hailmary.py session (Spec).                   *)
(***************************************************************************)
\* C25: in hailmary.py, whenever control is at the main-menu prompt or at the
\* start of a hire-flow iteration (the customer-header prompt),
\* next_customer_id = 101 + len(hire_records): the counter is advanced once
\* per appended record and by nothing else.
C25_CounterTracksLedger ==
    pc \in {"menu", "header"} => next_customer_id = 101 + Len(hire_records)

C25_Witness ==
    /\ pc = "header"
    /\ last_op = "accepted"
    /\ Len(hire_records) = 2
    /\ next_customer_id = 103

\* C26: run_earnings_report is read-only and never fails: for every
\* reachable ledger, empty or not, the report step completes with its
\* rendering (one message line, or header, separator and one row per
\* record), leaves hire_records and next_customer_id unchanged and returns
\* to the menu, and a report that directly follows a report prints the same
\* lines.
C26_ReportReadOnly ==
    [][ last_op' = "report" =>
           /\ hire_records' = hire_records
           /\ next_customer_id' = next_customer_id
           /\ pc' = "menu"
           /\ Len(out') = (IF hire_records = <<>> THEN 1 ELSE Len(hire_records) + 2)
           /\ (last_op = "report" => out' = out) ]_vars

C26_Witness ==
    /\ last_op = "report"
    /\ pc = "menu"
    /\ Len(hire_records) = 2
    /\ Len(out) = 4
    /\ next_customer_id = 103

(***************************************************************************)
(* Further properties of the pricing engine (PricingSpec).                 *)
(***************************************************************************)
line_total(costs) == costs[1] + costs[2] + costs[3]

\* C27: a late return is billed like one more additional night: for every
\* daily price >= 0, quantity >= 1 and nights >= 1, the line total of
\* calc_line_costs for (nights, returned late) equals the line total for
\* (nights + 1, returned on time), and the line total grows by
\* floor(daily_price * quantity / 2) for each added night.
C27_LateIsOneMoreNight ==
    calc_result # NONE =>
        LET d == calc_args.daily_p
            q == calc_args.qty
            n == calc_args.nights
        IN /\ line_total(calc_line_costs_of(program, d, q, n, FALSE))
                  = line_total(calc_line_costs_of(program, d, q, n + 1, TRUE))
           /\ line_total(calc_line_costs_of(program, d, q, n + 1, calc_args.returned_on_time))
                  = line_total(calc_result) + half_night(d, q)
           /\ (~calc_args.returned_on_time =>
                  line_total(calc_result) = d * q + half_night(d, q) * n)

C27_Witness ==
    /\ calc_result # NONE
    /\ ~calc_args.returned_on_time
    /\ calc_args.daily_p * calc_args.qty = 5
    /\ calc_args.nights = 2
    /\ line_total(calc_result) = 9

\* C28 as claimed: the reference computation of the test script (first =
\* daily * qty, additional = (daily * qty * max(0, nights - 1)) // 2, late =
\* (daily * qty) // 2 when not on time, else 0) gives the same three amounts
\* as calc_line_costs for every daily price >= 0, quantity >= 1,
\* nights >= 1 and either flag.
C28_ReferenceAgrees ==
    calc_result # NONE =>
        reference_line_costs(calc_args.daily_p, calc_args.qty, calc_args.nights,
                             calc_args.returned_on_time) = calc_result

\* C28 as amended: the reference computation gives the same first-night and
\* late amounts as calc_line_costs, and the same additional-nights amount
\* whenever daily * qty is even or nights <= 2; when daily * qty is odd the
\* reference, which floors the product once, exceeds calc_line_costs, which
\* floors each half-night, by floor((nights - 1) / 2).
C28_ReferenceAgreesUpToFlooring ==
    calc_result # NONE =>
        LET ref == reference_line_costs(calc_args.daily_p, calc_args.qty,
                                        calc_args.nights, calc_args.returned_on_time)
            odd == (calc_args.daily_p * calc_args.qty) % 2
        IN /\ ref[1] = calc_result[1]
           /\ ref[3] = calc_result[3]
           /\ ref[2] = calc_result[2] + odd * ((calc_args.nights - 1) \div 2)
           /\ ((odd = 0 \/ calc_args.nights <= 2) => ref = calc_result)

C28_Witness ==
    /\ calc_result # NONE
    /\ calc_args.daily_p * calc_args.qty = 3
    /\ calc_args.nights = 3
    /\ calc_result[2] = 2
    /\ reference_line_costs(calc_args.daily_p, calc_args.qty, calc_args.nights,
                            calc_args.returned_on_time)[2] = 3

(***************************************************************************)
(* Termination of the main loop of hailmary.py (LiveSpec).                 *)
(***************************************************************************)
is_prefix(a, b) == Len(a) <= Len(b) /\ SubSeq(b, 1, Len(a)) = a

\* C30: the main loop of hailmary.py ends the session exactly when option 3
\* is chosen at the main menu: only "3" among the menu inputs is read as 3,
\* the session ends only by a step from the menu, and nothing happens after
\* it; an invalid choice changes neither ledger nor counter and returns to
\* the menu; options 1 and 2 leave the ledger's records in place and control
\* comes back to the menu; and with a user who eventually chooses 3 at the
\* menu and input loops that eventually receive a valid input, the program
\* terminates.
C30_MainLoopEnds ==
    /\ [][ /\ pc # "exit"
           /\ (pc' = "exit" => pc = "menu")
           /\ (pc = "menu" =>
                  /\ hire_records' = hire_records
                  /\ next_customer_id' = next_customer_id
                  /\ pc' \in {"menu", "header", "exit"}
                  /\ (last_op' = "rejected" => pc' = "menu")
                  /\ (last_op' = "report" => pc' = "menu"))
           /\ is_prefix(hire_records, hire_records') ]_vars
    /\ [](\A raw \in ChoiceInputs :
             /\ (ChoiceOutcome[program][raw] = Ok(3)) <=> (raw \in {Str("3"), Str(" 3 ")})
             /\ (raw \in {Str("4"), Str("0"), Str("x"), <<>>, Str("²")} => ChoiceOutcome[program][raw] = NONE))
    /\ ((pc \notin {"menu", "exit"}) ~> (pc = "menu"))
    /\ <>(pc = "exit")

C30_Witness ==
    /\ pc = "exit"
    /\ last_op = "accepted"
    /\ Len(hire_records) = 2
    /\ next_customer_id = 103

====
